---- MODULE Spec2Model ----
(***************************************************************************)
(* Model of src/KPM_Algorithm.py: compute_lps (the failure-table builder)  *)
(* and kmp_search (the scan), as a state machine whose program counter     *)
(* follows the statements of the two functions.  Python sequences are      *)
(* 0-indexed; TLA+ sequences are 1-indexed, PyAt/PySet do the conversion    *)
(* and PyRaises says when Python would raise IndexError.                    *)
(***************************************************************************)
EXTENDS Integers, Sequences, FiniteSets

\* ---------------------------------------------------------------- bounds
MaxN == 5
MaxM == 6
Alphabet == {"A", "B"}

Texts == UNION {[1..k -> Alphabet] : k \in 0..MaxN}
Patterns == UNION {[1..k -> Alphabet] : k \in 0..MaxM}

\* saturation point of the iteration counters (bookkeeping only)
IterCap == 2 * (MaxN + MaxM) + 4

VARIABLES
  entry,     \* which function the caller invoked
  text,      \* argument text of kmp_search
  pattern,   \* argument pattern
  pc,        \* position in the code
  n, m,      \* len(text), len(pattern)
  lps,       \* the failure table
  length,    \* compute_lps: length of previous longest prefix suffix
  bi,        \* compute_lps: its local i
  i, j,      \* kmp_search: index for text, index for pattern
  indices,   \* kmp_search: the match list being built
  result,    \* value returned to the caller
  lpsCalls,  \* number of invocations of compute_lps
  biters,    \* number of iterations of the build loop
  iters,     \* number of iterations of the scan loop
  i0, j0     \* values of i and j at the head of the current scan iteration

vars == <<entry, text, pattern, pc, n, m, lps, length, bi, i, j, indices,
          result, lpsCalls, biters, iters, i0, j0>>

\* ------------------------------------------------------ Python indexing
\* s[k] raises IndexError outside -len(s) .. len(s)-1
PyRaises(s, k) == k >= Len(s) \/ k < 0 - Len(s)

\* s[k], negative k counting from the end
PyAt(s, k) == IF k >= 0 THEN s[k + 1] ELSE s[Len(s) + k + 1]

\* s[k] = v
PySet(s, k, v) ==
  [s EXCEPT ![IF k >= 0 THEN k + 1 ELSE Len(s) + k + 1] = v]

Bump(c) == IF c < IterCap THEN c + 1 ELSE c

\* ------------------------------------------------------------ compute_lps
\* lps = [0] * m
ZeroTable(len) == [k \in 1..len |-> 0]

\* variant: the cursor starts at position 0
BuildStartAtZero == 1 - 1

\* i = 1
BuildStart == 1

\* while i < m
BuildCond(ii, mm) == ii < mm

\* length += 1 ; lps[i] = length
ExtendLen(len) == len + 1

\* variants: the fallback restarts from 0; the fallback keeps length
BuildFallbackReset(tbl, len) == 0
BuildFallbackStuck(tbl, len) == len

\* length = lps[length - 1]
BuildFallback(tbl, len) == PyAt(tbl, len - 1)

\* the iteration of the build loop raises IndexError
LpsStepRaises ==
  \/ PyRaises(pattern, bi)
  \/ PyRaises(pattern, length)
  \/ IF PyAt(pattern, bi) = PyAt(pattern, length)
       THEN PyRaises(lps, bi)
       ELSE IF length # 0 THEN PyRaises(lps, length - 1)
                          ELSE PyRaises(lps, bi)

LpsInit ==
  /\ \/ pc = "start" /\ entry = "compute_lps"
     \/ pc = "call_lps"
  /\ m' = Len(pattern)
  /\ lps' = ZeroTable(Len(pattern))
  /\ length' = 0
  /\ bi' = BuildStart
  /\ lpsCalls' = lpsCalls + 1
  /\ pc' = "lps_loop"
  /\ UNCHANGED <<entry, text, pattern, n, i, j, indices, result, biters,
                 iters, i0, j0>>

LpsStep ==
  /\ pc = "lps_loop"
  /\ BuildCond(bi, m)
  /\ biters' = Bump(biters)
  /\ IF LpsStepRaises
       THEN pc' = "raised" /\ UNCHANGED <<lps, length, bi>>
       ELSE /\ pc' = "lps_loop"
            /\ IF PyAt(pattern, bi) = PyAt(pattern, length)
                 THEN /\ length' = ExtendLen(length)
                      /\ lps' = PySet(lps, bi, ExtendLen(length))
                      /\ bi' = bi + 1
                 ELSE IF length # 0
                        THEN /\ length' = BuildFallback(lps, length)
                             /\ UNCHANGED <<lps, bi>>
                        ELSE /\ lps' = PySet(lps, bi, 0)
                             /\ bi' = bi + 1
                             /\ UNCHANGED length
  /\ UNCHANGED <<entry, text, pattern, n, m, i, j, indices, result,
                 lpsCalls, iters, i0, j0>>

LpsReturn ==
  /\ pc = "lps_loop"
  /\ ~BuildCond(bi, m)
  /\ IF entry = "compute_lps"
       THEN pc' = "done" /\ result' = lps
       ELSE pc' = "scan_init" /\ UNCHANGED result
  /\ UNCHANGED <<entry, text, pattern, n, m, lps, length, bi, i, j, indices,
                 lpsCalls, biters, iters, i0, j0>>

\* ------------------------------------------------------------- kmp_search
\* variant: only the empty pattern returns early
EarlyExitEmptyOnly(nn, mm) == mm = 0

\* if m == 0 or m > n: return []
EarlyExit(nn, mm) == mm = 0 \/ mm > nn

\* variant: the loop runs one position too far
ScanCondInclusive(ii, nn) == ii <= nn

\* while i < n
ScanCond(ii, nn) == ii < nn

\* variant: the end of the occurrence is recorded
MatchOffsetEnd(ii, jj) == ii

\* indices.append(i - j)
MatchOffset(ii, jj) == ii - jj

\* variant: the scan restarts the pattern after a match
ResumeAtZero(tbl, jj) == 0

\* j = lps[j - 1] after a recorded match
ResumeAfterMatch(tbl, jj) == PyAt(tbl, jj - 1)

\* variants: the fallback restarts from 0; the fallback keeps j
ScanFallbackReset(tbl, jj) == 0
ScanFallbackStuck(tbl, jj) == jj

\* j = lps[j - 1] on a mismatch with j != 0
ScanFallback(tbl, jj) == PyAt(tbl, jj - 1)

\* variant: the bound of the elif test is one short
ElifCondShort == i < n - 1 /\ PyAt(text, i) # PyAt(pattern, j)

\* elif i < n and text[i] != pattern[j]
ElifCond == i < n /\ PyAt(text, i) # PyAt(pattern, j)

KmpGuard ==
  /\ pc = "start"
  /\ entry = "kmp_search"
  /\ n' = Len(text)
  /\ m' = Len(pattern)
  /\ IF EarlyExit(Len(text), Len(pattern))
       THEN pc' = "done" /\ result' = << >>
       ELSE pc' = "call_lps" /\ UNCHANGED result
  /\ UNCHANGED <<entry, text, pattern, lps, length, bi, i, j, indices,
                 lpsCalls, biters, iters, i0, j0>>

ScanInit ==
  /\ pc = "scan_init"
  /\ indices' = << >>
  /\ i' = 0
  /\ j' = 0
  /\ pc' = "scan_head"
  /\ UNCHANGED <<entry, text, pattern, n, m, lps, length, bi, result,
                 lpsCalls, biters, iters, i0, j0>>

\* the loop test succeeds: one more iteration starts
ScanHead ==
  /\ pc = "scan_head"
  /\ ScanCond(i, n)
  /\ iters' = Bump(iters)
  /\ i0' = i
  /\ j0' = j
  /\ pc' = "scan_cmp"
  /\ UNCHANGED <<entry, text, pattern, n, m, lps, length, bi, i, j, indices,
                 result, lpsCalls, biters>>

\* if text[i] == pattern[j]: i += 1 ; j += 1
ScanAdvance ==
  /\ pc = "scan_cmp"
  /\ IF PyRaises(text, i) \/ PyRaises(pattern, j)
       THEN pc' = "raised" /\ UNCHANGED <<i, j>>
       ELSE /\ pc' = "scan_branch"
            /\ IF PyAt(text, i) = PyAt(pattern, j)
                 THEN i' = i + 1 /\ j' = j + 1
                 ELSE UNCHANGED <<i, j>>
  /\ UNCHANGED <<entry, text, pattern, n, m, lps, length, bi, indices,
                 result, lpsCalls, biters, iters, i0, j0>>

\* the if / elif after the advance raises IndexError
ScanBranchRaises ==
  IF j = m
    THEN PyRaises(lps, j - 1)
    ELSE /\ i < n
         /\ \/ PyRaises(text, i)
            \/ PyRaises(pattern, j)
            \/ ElifCond /\ j # 0 /\ PyRaises(lps, j - 1)

ScanBranch ==
  /\ pc = "scan_branch"
  /\ IF ScanBranchRaises
       THEN pc' = "raised" /\ UNCHANGED <<i, j, indices>>
       ELSE /\ pc' = "scan_head"
            /\ IF j = m
                 THEN /\ indices' = Append(indices, MatchOffset(i, j))
                      /\ j' = ResumeAfterMatch(lps, j)
                      /\ UNCHANGED i
                 ELSE IF ElifCond
                        THEN IF j # 0
                               THEN /\ j' = ScanFallback(lps, j)
                                    /\ UNCHANGED <<i, indices>>
                               ELSE /\ i' = i + 1
                                    /\ UNCHANGED <<j, indices>>
                        ELSE UNCHANGED <<i, j, indices>>
  /\ UNCHANGED <<entry, text, pattern, n, m, lps, length, bi, result,
                 lpsCalls, biters, iters, i0, j0>>

\* the loop test fails: return indices
ScanReturn ==
  /\ pc = "scan_head"
  /\ ~ScanCond(i, n)
  /\ result' = indices
  /\ pc' = "done"
  /\ UNCHANGED <<entry, text, pattern, n, m, lps, length, bi, i, j, indices,
                 lpsCalls, biters, iters, i0, j0>>

\* ---------------------------------------------------------- specification
Init ==
  /\ \/ entry = "compute_lps" /\ text = << >> /\ pattern \in Patterns
     \/ entry = "kmp_search" /\ text \in Texts /\ pattern \in Patterns
  /\ pc = "start"
  /\ n = 0 /\ m = 0
  /\ lps = << >>
  /\ length = 0 /\ bi = 0
  /\ i = 0 /\ j = 0
  /\ indices = << >>
  /\ result = << >>
  /\ lpsCalls = 0 /\ biters = 0 /\ iters = 0
  /\ i0 = 0 /\ j0 = 0

Next ==
  \/ KmpGuard
  \/ LpsInit
  \/ LpsStep
  \/ LpsReturn
  \/ ScanInit
  \/ ScanHead
  \/ ScanAdvance
  \/ ScanBranch
  \/ ScanReturn

Spec == Init /\ [][Next]_vars

\* both functions are straight-line sequential code: a step that can be
\* taken is taken
FairSpec == Init /\ [][Next]_vars /\ WF_vars(Next)

\* ------------------------------------------------- reference definitions
\* the pattern occurs in the text at offset o
Occurs(o) ==
  /\ o >= 0
  /\ o + Len(pattern) <= Len(text)
  /\ \A k \in 1..Len(pattern) : text[o + k] = pattern[k]

\* naive quadratic scan: every offset from o on, in ascending order
RECURSIVE NaiveFrom(_)
NaiveFrom(o) ==
  IF o > Len(text) - Len(pattern)
    THEN << >>
    ELSE (IF Occurs(o) THEN <<o>> ELSE << >>) \o NaiveFrom(o + 1)

NaiveSearch == IF Len(pattern) = 0 THEN << >> ELSE NaiveFrom(0)

\* the prefix of length k of pattern[0..ii] is also its suffix
Border(ii, k) == \A t \in 1..k : pattern[t] = pattern[ii + 1 - k + t]

\* the longest proper one
LongestBorder(ii) ==
  CHOOSE k \in 0..ii :
    Border(ii, k) /\ \A k2 \in 0..ii : Border(ii, k2) => k2 <= k

SearchReturned == pc = "done" /\ entry = "kmp_search"
TableReturned == (pc = "done" /\ entry = "compute_lps") \/ pc = "scan_init"
Degenerate == Len(pattern) = 0 \/ Len(pattern) > Len(text)

\* --------------------------------------------------------------- claims

\* C1: kmp_search returns exactly the offsets found by the naive quadratic
\* scan, in strictly ascending order, each the start of an occurrence, and
\* the empty list for an empty pattern.
C1_EqualsBruteForce ==
  SearchReturned =>
    /\ result = NaiveSearch
    /\ \A a, b \in 1..Len(result) : a < b => result[a] < result[b]
    /\ \A a \in 1..Len(result) : Occurs(result[a])
    /\ Len(pattern) = 0 => result = << >>

C1_Witness ==
  /\ SearchReturned
  /\ text = <<"A", "A", "B", "A", "A">>
  /\ pattern = <<"A", "B", "A">>
  /\ result = <<1>>
  /\ iters > Len(text)

\* C2: compute_lps returns a table of length m whose entry i is the length
\* of the longest proper prefix of pattern[0..i] that is also its suffix;
\* the empty table for the empty pattern.
C2_TableIsLongestBorder ==
  TableReturned =>
    /\ Len(lps) = Len(pattern)
    /\ \A ii \in 0..(Len(pattern) - 1) : PyAt(lps, ii) = LongestBorder(ii)
    /\ (entry = "compute_lps" => result = lps)
    /\ (Len(pattern) = 0 => lps = << >>)

C2_Witness ==
  /\ pc = "done"
  /\ entry = "compute_lps"
  /\ pattern = <<"A", "A", "B", "A", "A", "A">>
  /\ result = <<0, 1, 0, 1, 2, 2>>

\* C3: with an empty pattern or a pattern longer than the text kmp_search
\* returns the empty list, never calls compute_lps and never reaches the
\* scan; in every other call compute_lps has been called exactly once
\* when the scan starts, and never more than once.
C3_EarlyExit ==
  entry = "kmp_search" =>
    /\ Degenerate =>
         /\ pc \in {"start", "done"}
         /\ lpsCalls = 0
         /\ iters = 0
         /\ (pc = "done" => result = << >>)
    /\ ~Degenerate =>
         /\ lpsCalls <= 1
         /\ pc \in {"scan_init", "scan_head", "scan_cmp", "scan_branch",
                    "done"} => lpsCalls = 1

C3_Witness ==
  /\ SearchReturned
  /\ Len(text) > 0
  /\ Len(pattern) > Len(text)
  /\ result = << >>
  /\ lpsCalls = 0

\* C4: no call raises IndexError; every index used is in bounds: text[i]
\* with 0 <= i < n, pattern[j] and pattern[length] with 0 <= j, length < m,
\* pattern[i] in the builder with i < m, lps[j-1] and lps[length-1] with
\* j, length >= 1.
C4_IndicesInBounds ==
  /\ pc # "raised"
  /\ (pc = "lps_loop" /\ BuildCond(bi, m)) =>
       /\ 0 <= bi /\ bi < Len(pattern) /\ bi < Len(lps)
       /\ 0 <= length /\ length < Len(pattern)
  /\ pc = "scan_cmp" =>
       /\ 0 <= i /\ i < Len(text)
       /\ 0 <= j /\ j < Len(pattern)
  /\ pc = "scan_branch" =>
       /\ 0 <= j /\ j <= Len(pattern)
       /\ (j = m => j >= 1 /\ j - 1 < Len(lps))
       /\ (j # m /\ i < n) =>
            /\ 0 <= i /\ i < Len(text)
            /\ j < Len(pattern)
            /\ (ElifCond /\ j # 0 => j >= 1 /\ j - 1 < Len(lps))

C4_Witness ==
  /\ SearchReturned
  /\ text = <<"A", "A", "A", "A", "B">>
  /\ pattern = <<"A", "A", "B">>
  /\ result = <<2>>
  /\ biters = 3

\* C5: for a non-empty pattern the table has lps[0] = 0 and
\* 0 <= lps[i] <= i for every i, in every state of the build loop and
\* afterwards, and an entry written for a position is never changed later.
C5_TableInvariant ==
  /\ [](/\ \A k \in 1..Len(lps) : 0 <= lps[k] /\ lps[k] <= k - 1
        /\ (lpsCalls > 0 /\ Len(pattern) > 0) =>
              Len(lps) = Len(pattern) /\ PyAt(lps, 0) = 0)
  /\ [][lpsCalls > 0 =>
          /\ Len(lps') = Len(lps)
          /\ \A k \in 1..Len(lps) : k - 1 < bi => lps'[k] = lps[k]]_vars

C5_Witness ==
  /\ pc = "lps_loop"
  /\ pattern = <<"A", "B", "A", "B", "B">>
  /\ bi = 4
  /\ length = 0
  /\ lps = <<0, 0, 1, 2, 0>>
  /\ biters = 4

\* C6: overlapping occurrences are all reported: for a pattern of k >= 1
\* copies of one symbol and a text of n >= k copies of it the result is
\* [0, 1, ..., n-k]; search("AAAAA", "AA") = [0, 1, 2, 3] and
\* search("AAAA", "AA") = [0, 1, 2].
C6_Overlaps ==
  SearchReturned =>
    /\ \A c \in Alphabet :
         (/\ Len(pattern) >= 1
          /\ Len(text) >= Len(pattern)
          /\ \A k \in 1..Len(text) : text[k] = c
          /\ \A k \in 1..Len(pattern) : pattern[k] = c)
         => result = [o \in 1..(Len(text) - Len(pattern) + 1) |-> o - 1]
    /\ (text = <<"A", "A", "A", "A", "A">> /\ pattern = <<"A", "A">>)
         => result = <<0, 1, 2, 3>>
    /\ (text = <<"A", "A", "A", "A">> /\ pattern = <<"A", "A">>)
         => result = <<0, 1, 2>>

C6_Witness ==
  /\ SearchReturned
  /\ text = <<"A", "A", "A", "A", "A">>
  /\ pattern = <<"A", "A">>
  /\ result = <<0, 1, 2, 3>>

InScan == pc \in {"scan_head", "scan_cmp", "scan_branch"}

\* C7: the scan loop terminates, and exactly when i = n: i never
\* decreases, every iteration increases i or strictly decreases j, and
\* there are at most 2n iterations.
C7_ScanTerminates ==
  /\ [][i' >= i]_vars
  /\ [][pc = "scan_branch" => (i' > i0 \/ j' < j0)]_vars
  /\ [](iters <= 2 * Len(text))
  /\ [](InScan => i <= n)
  /\ [](SearchReturned /\ ~Degenerate => i = n)
  /\ [][(pc = "scan_head" /\ pc' = "done") => i = n]_vars
  /\ (pc = "scan_init") ~> SearchReturned

C7_Witness ==
  /\ SearchReturned
  /\ text = <<"A", "A", "A", "A", "B">>
  /\ pattern = <<"A", "A", "A", "A">>
  /\ result = <<0>>
  /\ i = 5
  /\ iters = 8

\* C8: the build loop terminates, and exactly when i = m (at once when
\* m <= 1): i never decreases, a fallback strictly decreases length and
\* leaves i alone, length grows only by one together with i, length < i at
\* the loop head, and there are at most 2m iterations.
C8_BuildTerminates ==
  /\ [][bi' >= bi]_vars
  /\ [][(pc = "lps_loop" /\ pc' = "lps_loop") =>
          \/ length' < length /\ bi' = bi
          \/ length' = length + 1 /\ bi' = bi + 1
          \/ length' = length /\ length = 0 /\ bi' = bi + 1]_vars
  /\ [](pc = "lps_loop" => length < bi /\ (Len(pattern) >= 1 => bi <= m))
  /\ [](biters <= 2 * Len(pattern))
  /\ [](TableReturned =>
          IF Len(pattern) <= 1 THEN biters = 0 ELSE bi = Len(pattern))
  /\ (pc = "lps_loop") ~> TableReturned

C8_Witness ==
  /\ pc = "done"
  /\ entry = "compute_lps"
  /\ pattern = <<"A", "A", "B", "A", "A", "A">>
  /\ bi = 6
  /\ biters = 7

\* the scan with the elif condition dropped (an unconditional else)
RECURSIVE SimplifiedScan(_, _, _)
SimplifiedScan(si, sj, found) ==
  IF ~(si < Len(text))
    THEN found
    ELSE LET adv == text[si + 1] = pattern[sj + 1]
             ai == IF adv THEN si + 1 ELSE si
             aj == IF adv THEN sj + 1 ELSE sj
         IN IF aj = Len(pattern)
              THEN SimplifiedScan(ai, lps[aj], Append(found, ai - aj))
              ELSE IF aj # 0
                     THEN SimplifiedScan(ai, lps[aj], found)
                     ELSE SimplifiedScan(ai + 1, aj, found)

\* C9 (as stated): whenever the elif test is reached the condition
\* i < n and text[i] != pattern[j] is true, so the loop gives the same
\* result as the loop with an unconditional else.
C9_ElifAlwaysTrue ==
  /\ (pc = "scan_branch" /\ j # m) => ElifCond
  /\ (SearchReturned /\ ~Degenerate) => result = SimplifiedScan(0, 0, << >>)

\* C9 (amended): when the elif test is reached in an iteration that did not
\* advance i and j the condition is true; it is false only after an
\* advance, with i = n or text[i] = pattern[j].
C9_ElifTrueWithoutAdvance ==
  (pc = "scan_branch" /\ j # m) =>
    /\ (i = i0 /\ j = j0) => ElifCond
    /\ ~ElifCond => /\ i = i0 + 1
                    /\ j = j0 + 1
                    /\ (i = n \/ PyAt(text, i) = PyAt(pattern, j))

C9_Witness ==
  /\ pc = "scan_branch"
  /\ j # m
  /\ i < n
  /\ i = i0 + 1
  /\ ~ElifCond
  /\ PyAt(text, i) = PyAt(pattern, j)

\* C10: at the head of every scan iteration 0 <= j < m, j <= i <= n,
\* text[i-j..i) = pattern[0..j), every recorded offset starts an occurrence
\* ending at or before i, and every occurrence ending at or before i is
\* recorded.
C10_LoopInvariant ==
  pc = "scan_head" =>
    /\ 0 <= j /\ j < m
    /\ j <= i /\ i <= n
    /\ \A k \in 1..j : text[i - j + k] = pattern[k]
    /\ \A a \in 1..Len(indices) : Occurs(indices[a]) /\ indices[a] + m <= i
    /\ \A o \in 0..i :
         (Occurs(o) /\ o + m <= i) =>
            \E a \in 1..Len(indices) : indices[a] = o

C10_Witness ==
  /\ pc = "scan_head"
  /\ text = <<"A", "B", "A", "B", "A">>
  /\ pattern = <<"A", "B", "A">>
  /\ i = 3
  /\ j = 1
  /\ indices = <<0>>

====
